---- MODULE Spec2Model ----
(***************************************************************************)
(* Model of cmd/clair/config.go: the package-level Viper handle            *)
(* clairConfig, DefaultConfig and LoadConfig.                              *)
(*                                                                         *)
(* Text values (file values, environment values, keys rendered as text)    *)
(* are sequences of one-character strings, so that parsing them is         *)
(* something the model computes.  Durations are counted in seconds (Go     *)
(* counts nanoseconds in an int64); the inputs use the units s, m and h    *)
(* only, so nothing is lost by the coarser unit.                           *)
(***************************************************************************)
EXTENDS Integers, Sequences, FiniteSets, TLC

VARIABLES
    env,          \* the process environment seen through AutomaticEnv, by key
    clairConfig,  \* the package-level *viper.Viper (nil, or its parsed file)
    path,         \* argument of the latest LoadConfig call
    firstPath,    \* argument of the first LoadConfig call of the process
    firstReadable, \* first argument so far that names a readable file ("": none)
    outcome,      \* "none" | "ok" | "error" | "panic": how the latest call ended
    config,       \* returned *Config: Nil or a one-element set holding the Config
    err           \* returned error

vars == <<env, clairConfig, path, firstPath, firstReadable, outcome, config, err>>

\* ------------------------------------------------------------------ bounds
\* Byte length of a fernet key in the model (32 in the library).
KeyLen == 2
\* Largest number of environment variables set in the process environment.
MaxEnvVars == 2

\* ------------------------------------------------------------------ text
Digits == {"0", "1", "2", "3", "4", "5", "6", "7", "8", "9"}

IsDigit(c) == c \in Digits

DigitVal(c) ==
    CASE c = "0" -> 0 [] c = "1" -> 1 [] c = "2" -> 2 [] c = "3" -> 3 [] c = "4" -> 4
      [] c = "5" -> 5 [] c = "6" -> 6 [] c = "7" -> 7 [] c = "8" -> 8 [] c = "9" -> 9

Tail2(s, n) == SubSeq(s, n + 1, Len(s))

\* Number of leading characters of s that are digits.
RECURSIVE LeadingDigits(_)
LeadingDigits(s) ==
    IF s = <<>> \/ ~IsDigit(Head(s)) THEN 0 ELSE 1 + LeadingDigits(Tail(s))

\* Number of leading characters of s that are not digits (a unit name).
RECURSIVE LeadingUnit(_)
LeadingUnit(s) ==
    IF s = <<>> \/ IsDigit(Head(s)) THEN 0 ELSE 1 + LeadingUnit(Tail(s))

\* Decimal value of a sequence of digits.
RECURSIVE Atoi(_)
Atoi(s) ==
    IF s = <<>> THEN 0 ELSE Atoi(SubSeq(s, 1, Len(s) - 1)) * 10 + DigitVal(s[Len(s)])

\* cast.ToInt as used by GetInt: the decimal value, 0 when it does not parse.
ToInt(s) ==
    IF s # <<>> /\ LeadingDigits(s) = Len(s) THEN Atoi(s) ELSE 0

\* time.ParseDuration's unit table, in seconds.
UnitSeconds(u) ==
    IF u = <<"s">> THEN 1
    ELSE IF u = <<"m">> THEN 60
    ELSE IF u = <<"h">> THEN 3600
    ELSE 0

\* time.ParseDuration on the (number unit)+ part of the input.
RECURSIVE ParseTerms(_, _)
ParseTerms(s, acc) ==
    IF s = <<>> THEN [ok |-> TRUE, d |-> acc]
    ELSE LET n == LeadingDigits(s)
             r == Tail2(s, n)
             u == LeadingUnit(r)
             unit == SubSeq(r, 1, u)
         IN  IF n = 0 \/ u = 0 \/ UnitSeconds(unit) = 0
             THEN [ok |-> FALSE, d |-> 0]
             ELSE ParseTerms(Tail2(r, u), acc + Atoi(SubSeq(s, 1, n)) * UnitSeconds(unit))

\* time.ParseDuration: [ok, d]; ok = FALSE is the returned error.  Signs and
\* fractions, which no input of the model uses, are left out.
ParseDuration(s) ==
    IF s = <<>> THEN [ok |-> FALSE, d |-> 0]
    ELSE IF s = <<"0">> THEN [ok |-> TRUE, d |-> 0]
    ELSE ParseTerms(s, 0)

\* ------------------------------------------------------------------ fernet
\* fernet.Key holds KeyLen bytes; a byte of the model is 0 or 1.
ByteVals == {0, 1}

\* base64.URLEncoding and base64.StdEncoding: the character of each byte value.
\* The two alphabets differ in their last characters ("-" against "+").
URLAlphabet == <<"A", "-">>
StdAlphabet == <<"A", "+">>

InAlphabet(a, c) == \E i \in 1..Len(a) : a[i] = c

\* base64 encoding of a byte sequence with alphabet a.
EncodeToString(a, b) == [i \in 1..Len(b) |-> a[b[i] + 1]]

\* base64 decoding of a text with alphabet a: [ok, b]; ok = FALSE is the error.
DecodeString(a, s) ==
    IF \A i \in 1..Len(s) : InAlphabet(a, s[i])
    THEN [ok |-> TRUE,
          b |-> [i \in 1..Len(s) |-> (CHOOSE j \in 1..Len(a) : a[j] = s[i]) - 1]]
    ELSE [ok |-> FALSE, b |-> <<>>]

\* The keys (*fernet.Key).Generate can produce: any KeyLen random bytes.
GeneratedKeys == [1..KeyLen -> ByteVals]

\* Encode with a defect: the last character of the text is lost.
EncodeTruncated(k) == SubSeq(EncodeToString(URLAlphabet, k), 1, Len(k) - 1)

\* (*fernet.Key).Encode: URL-safe base64 of the key bytes.
Encode(k) == EncodeToString(URLAlphabet, k)

\* fernet.DecodeKey: standard base64 first, URL-safe base64 second, then the
\* size check.  TRUE when it returns a key and no error.  (Its hexadecimal
\* branch takes texts of twice the key length in hex digits only; no text of
\* the model is one.)
DecodeKey(s) ==
    LET std == DecodeString(StdAlphabet, s)
        url == DecodeString(URLAlphabet, s)
        dec == IF std.ok THEN std ELSE url
    IN  dec.ok /\ Len(dec.b) = KeyLen

\* ------------------------------------------------------------------ inputs
pgsql == <<"p", "g", "s", "q", "l">>
mysql == <<"m", "y", "s", "q", "l">>
DataSource == <<"d", "b">>
HookURL == <<"h", "t", "t", "p">>
NotAKey == <<"n", "o", "t", "-", "a", "-", "k", "e", "y">>
Bananas == <<"5", " ", "b", "a", "n", "a", "n", "a", "s">>
\* A well-formed configured pagination key.
GoodKey == Encode([i \in 1..KeyLen |-> 1])

EmptyMap == <<>>

\* The configuration files on disk, by path: the parsed key/value pairs of each
\* readable YAML file.  "" names no file and "missing.yaml" does not exist.
Disk ==
    [p \in {"clair.yaml", "nested.yaml", "renotify.yaml", "bananas.yaml",
            "badkey.yaml", "goodkey.yaml", "other.yaml"} |->
        CASE p = "clair.yaml" ->
                 ("clair.database.type" :> pgsql)
              @@ ("clair.database.options.source" :> DataSource)
              @@ ("clair.api.timeout" :> <<"3", "0", "s">>)
              @@ ("clair.updater.interval" :> <<"2", "m">>)
              @@ ("clair.notifier.renotifyinterval" :> <<"1", "h", "3", "0", "m">>)
          [] p = "nested.yaml" ->
                 ("clair.database.options.source" :> DataSource)
              @@ ("clair.database.options.cachesize" :> <<"1", "6">>)
              @@ ("clair.database.api.healthaddr" :> <<"x">>)
              @@ ("clair.database.api.healthport" :> <<"8", "0">>)
              @@ ("clair.database.api.timeout" :> <<"3", "0", "s">>)
              @@ ("clair.database.api.cafile" :> <<"c", "a">>)
              @@ ("clair.database.api.keyfile" :> <<"k">>)
              @@ ("clair.database.api.certfile" :> <<"c">>)
              @@ ("clair.database.updater.interval" :> <<"2", "h">>)
              @@ ("clair.database.notifier.attempts" :> <<"3">>)
              @@ ("clair.database.updater.attempts" :> <<"7">>)
              @@ ("clair.database.notifier.renotifyinterval" :> <<"1", "h">>)
              @@ ("clair.database.updater.renotifyinterval" :> <<"4", "m">>)
          [] p = "renotify.yaml" ->
                 ("clair.database.options.source" :> DataSource)
              @@ ("clair.database.notifier.renotifyinterval" :> <<"1", "h">>)
          [] p = "bananas.yaml" ->
                 ("clair.database.options.source" :> DataSource)
              @@ ("clair.updater.interval" :> Bananas)
          [] p = "badkey.yaml" ->
                 ("clair.database.options.source" :> DataSource)
              @@ ("clair.database.options.paginationkey" :> NotAKey)
          [] p = "goodkey.yaml" ->
                 ("clair.database.options.source" :> DataSource)
              @@ ("clair.database.options.paginationkey" :> GoodKey)
          [] p = "other.yaml" ->
                 ("clair.database.type" :> mysql)
              @@ ("clair.database.options.source" :> DataSource)]

\* The paths LoadConfig is called with.
Paths == DOMAIN Disk \cup {"", "missing.yaml"}

\* Values an environment variable may hold, by the key AutomaticEnv binds it to.
EnvVals ==
       ("clair.database.type" :> {mysql})
    @@ ("clair.database.options.source" :> {DataSource})
    @@ ("clair.database.options.paginationkey" :> {GoodKey, NotAKey})
    @@ ("clair.database.notifier.http" :> {HookURL})
    @@ ("clair.updater.interval" :> {Bananas})
    @@ ("clair.database.updater.interval" :> {Bananas, <<"9", "0", "s">>})

\* The process environments: at most MaxEnvVars variables set.
Environments ==
    UNION { { e \in [S -> UNION {EnvVals[k] : k \in DOMAIN EnvVals}] :
                \A k \in S : e[k] \in EnvVals[k] } :
            S \in {T \in SUBSET DOMAIN EnvVals : Cardinality(T) <= MaxEnvVars} }

\* ------------------------------------------------------------------ viper
\* A *viper.Viper after SetEnvPrefix and AutomaticEnv: v.env is the process
\* environment and v.config the key/value pairs ReadInConfig parsed.

\* GetString with a defect: the file is looked up before the environment.
GetStringFileFirst(v, key) ==
    IF key \in DOMAIN v.config THEN v.config[key]
    ELSE IF key \in DOMAIN v.env THEN v.env[key]
    ELSE <<>>

\* (*viper.Viper).IsSet: the key has a value in the environment or in the file.
IsSet(v, key) == key \in DOMAIN v.env \/ key \in DOMAIN v.config

\* (*viper.Viper).GetString: the environment value, else the file value, else "".
GetString(v, key) ==
    IF key \in DOMAIN v.env THEN v.env[key]
    ELSE IF key \in DOMAIN v.config THEN v.config[key]
    ELSE <<>>

\* (*viper.Viper).GetInt.
GetInt(v, key) == ToInt(GetString(v, key))

\* (*viper.Viper).ReadInConfig after SetConfigFile(p): [err, config].
ReadInConfig(p) ==
    IF p \in DOMAIN Disk
    THEN [err |-> "nil", config |-> Disk[p]]
    ELSE [err |-> "ReadInConfig", config |-> EmptyMap]

\* ------------------------------------------------------------------ config.go
Nil == {}

ErrDatasourceNotLoaded == "could not load configuration: no database source specified"

DefaultConfig ==
    [Database |-> [Type |-> pgsql, Options |-> EmptyMap],
     Updater |-> [Interval |-> 1 * 3600],
     API |-> [Port |-> 6060, HealthPort |-> 6061, Timeout |-> 900 * 1,
              CAFile |-> <<>>, KeyFile |-> <<>>, CertFile |-> <<>>],
     Notifier |-> [Attempts |-> 5, RenotifyInterval |-> 2 * 3600]]

\* OpenConfig with a defect: no nil test, the file is read on every call.
OpenConfigEveryCall(cc, p) ==
    LET read == ReadInConfig(p)
    IN  [clairConfig |-> [isNil |-> FALSE, config |-> read.config], err |-> read.err]

\* LoadConfig, the clairConfig == nil block: the handle is created and the file
\* read on the first call only; err is the named result after the block.
OpenConfig(cc, p) ==
    IF cc.isNil
    THEN LET read == ReadInConfig(p)
         IN  [clairConfig |-> [isNil |-> FALSE, config |-> read.config],
              err |-> read.err]
    ELSE [clairConfig |-> cc, err |-> "nil"]

\* LoadConfig from SetEnvPrefix on: how the call ends, with the returned values.
\* err0 is the named result err on entry; gen is the outcome of key.Generate.
\* No return hands err0 back: every return follows an assignment to err by
\* time.ParseDuration or key.Generate, and no statement tests err0.
\* The named result config is still nil when it is written through, which panics.
Assemble(v, err0, gen) ==
    LET c0 == [DefaultConfig EXCEPT !.Database.Options = EmptyMap]
        c1 == IF IsSet(v, "clair.database.type")
              THEN [c0 EXCEPT !.Database.Type = GetString(v, "clair.database.type")]
              ELSE c0
        c2 == IF IsSet(v, "clair.database.options.source")
              THEN [c1 EXCEPT !.Database.Options =
                        ("source" :> GetString(v, "clair.database.options.source")) @@ @]
              ELSE c1
        c3 == IF IsSet(v, "clair.database.options.cachesize")
              THEN [c2 EXCEPT !.Database.Options =
                        ("cachesize" :> GetString(v, "clair.database.options.cachesize")) @@ @]
              ELSE c2
        c4 == IF IsSet(v, "clair.database.options.paginationkey")
              THEN [c3 EXCEPT !.Database.Options =
                        ("paginationkey" :>
                            GetString(v, "clair.database.options.paginationkey")) @@ @]
              ELSE c3
        c5 == IF IsSet(v, "clair.database.api.healthaddr")
              THEN [c4 EXCEPT !.API.HealthPort = GetInt(v, "clair.database.api.healthport")]
              ELSE c4
        timeout == ParseDuration(GetString(v, "clair.database.api.timeout"))
        timeoutErr == IsSet(v, "clair.database.api.timeout") /\ ~timeout.ok
        c6 == IF IsSet(v, "clair.database.api.timeout")
              THEN [c5 EXCEPT !.API.Timeout = timeout.d]
              ELSE c5
        c7 == IF IsSet(v, "clair.database.api.cafile")
              THEN [c6 EXCEPT !.API.CAFile = GetString(v, "clair.database.api.cafile")]
              ELSE c6
        c8 == IF IsSet(v, "clair.database.api.keyfile")
              THEN [c7 EXCEPT !.API.KeyFile = GetString(v, "clair.database.api.keyfile")]
              ELSE c7
        c9 == IF IsSet(v, "clair.database.api.certfile")
              THEN [c8 EXCEPT !.API.CertFile = GetString(v, "clair.database.api.certfile")]
              ELSE c8
        interval == ParseDuration(GetString(v, "clair.database.updater.interval"))
        intervalErr == IsSet(v, "clair.database.updater.interval") /\ ~interval.ok
        c10 == IF IsSet(v, "clair.database.updater.interval")
               THEN [c9 EXCEPT !.Updater.Interval = interval.d]
               ELSE c9
        c11 == IF IsSet(v, "clair.database.notifier.attempts")
               THEN [c10 EXCEPT !.Notifier.Attempts =
                         GetInt(v, "clair.database.updater.attempts")]
               ELSE c10
        renotify == ParseDuration(GetString(v, "clair.database.updater.renotifyinterval"))
        renotifyErr == IsSet(v, "clair.database.notifier.renotifyinterval") /\ ~renotify.ok
        c12 == IF IsSet(v, "clair.database.notifier.renotifyinterval")
               THEN [c11 EXCEPT !.Notifier.RenotifyInterval = renotify.d]
               ELSE c11
    IN  IF timeoutErr \/ intervalErr \/ renotifyErr
        THEN [outcome |-> "error", config |-> Nil, err |-> "ParseDuration"]
        ELSE IF IsSet(v, "clair.database.notifier.http")
        THEN [outcome |-> "panic", config |-> Nil, err |-> "nil"]
        ELSE IF ~IsSet(v, "clair.database.options.paginationkey")
        THEN IF ~gen.ok
             THEN [outcome |-> "error", config |-> Nil, err |-> "Generate"]
             ELSE [outcome |-> "ok",
                   config |-> {[c12 EXCEPT !.Database.Options =
                                    ("paginationkey" :> Encode(gen.key)) @@ @]},
                   err |-> "nil"]
        ELSE [outcome |-> "panic", config |-> Nil, err |-> "nil"]

\* What key.Generate can do: fail reading entropy, or fill the key at random.
Generations ==
    {[ok |-> FALSE, key |-> <<>>]} \cup {[ok |-> TRUE, key |-> k] : k \in GeneratedKeys}

Init ==
    /\ env \in Environments
    /\ clairConfig = [isNil |-> TRUE, config |-> EmptyMap]
    /\ path = ""
    /\ firstPath = ""
    /\ firstReadable = ""
    /\ outcome = "none"
    /\ config = Nil
    /\ err = "nil"

\* One call LoadConfig(p).  A panic ends the process: no call follows it.
LoadConfig(p, gen) ==
    /\ outcome # "panic"
    /\ \E open \in {OpenConfig(clairConfig, p)} :
         \E ret \in {Assemble([env |-> env, config |-> open.clairConfig.config],
                              open.err, gen)} :
            /\ clairConfig' = open.clairConfig
            /\ outcome' = ret.outcome
            /\ config' = ret.config
            /\ err' = ret.err
    /\ path' = p
    /\ firstPath' = IF outcome = "none" THEN p ELSE firstPath
    /\ firstReadable' = IF firstReadable = "" /\ p \in DOMAIN Disk THEN p ELSE firstReadable
    /\ UNCHANGED env

Next == \E p \in Paths, gen \in Generations : LoadConfig(p, gen)

Spec == Init /\ [][Next]_vars

\* ------------------------------------------------------------------ claims
\* A call has been made.
Called == outcome # "none"

\* The latest call returned to its caller.
Returned == outcome \in {"ok", "error"}

\* The latest call has the argument of the first call, so it resolves what the
\* first call resolved (the environment does not change).
AsFirstCall == Called /\ path = firstPath

\* The latest call panicked, or key.Generate failed in it: the ways a call ends
\* that the claims about the other errors leave aside.
Distracted == outcome = "panic" \/ err = "Generate"

\* The key has a value in the environment or in the file the call resolved.
Configured(key) == key \in DOMAIN env \/ key \in DOMAIN clairConfig.config

\* That value: the environment's when there is one, the file's otherwise.
Effective(key) == IF key \in DOMAIN env THEN env[key] ELSE clairConfig.config[key]

\* C1: every call that returned a nil error returned a Config whose
\* Database.Options["paginationkey"] is present and decodes as a key of the
\* required length.
C1_KeyValidOnSuccess ==
    (Returned /\ err = "nil") =>
        /\ config # Nil
        /\ \A c \in config :
              /\ "paginationkey" \in DOMAIN c.Database.Options
              /\ DecodeKey(c.Database.Options["paginationkey"])

\* C1 witness: a call succeeded with a generated key made of URL-only characters.
C1_Witness ==
    /\ outcome = "ok"
    /\ \E c \in config : c.Database.Options["paginationkey"] = [i \in 1..KeyLen |-> "-"]

\* C2: a configured pagination key that does not decode makes the call return
\* a non-nil error and a nil Config.
C2_InvalidKeyIsAnError ==
    (Called /\ Configured("clair.database.options.paginationkey")
            /\ ~DecodeKey(Effective("clair.database.options.paginationkey")))
        => (outcome = "error" /\ err # "nil" /\ config = Nil)

\* C3: every call returns to its caller; none panics.
C3_NeverPanics == outcome # "panic"

C5_MissingFileIsFatal ==
    (AsFirstCall /\ path # "" /\ path \notin DOMAIN Disk /\ ~Distracted)
        => (outcome = "error" /\ err = "ReadInConfig" /\ config = Nil)

\* C6: an updater interval configured at clair.updater.interval that does not
\* parse as a duration makes the call fail with the parse error and no Config
\* (the call neither panicking nor running out of entropy).
C6_BadIntervalIsFatal ==
    (Called /\ Configured("clair.updater.interval")
            /\ ~ParseDuration(Effective("clair.updater.interval")).ok
            /\ ~Distracted)
        => (outcome = "error" /\ err = "ParseDuration" /\ config = Nil)

\* C7: with no environment overrides, each duration field of the Config a first
\* call returns is the duration written in the file at clair.api.timeout,
\* clair.updater.interval and clair.notifier.renotifyinterval.
C7_DurationsRoundTrip ==
    (AsFirstCall /\ path \in DOMAIN Disk /\ env = EmptyMap /\ outcome = "ok") =>
        \A c \in config :
            /\ "clair.api.timeout" \in DOMAIN Disk[path] =>
                  c.API.Timeout = ParseDuration(Disk[path]["clair.api.timeout"]).d
            /\ "clair.updater.interval" \in DOMAIN Disk[path] =>
                  c.Updater.Interval = ParseDuration(Disk[path]["clair.updater.interval"]).d
            /\ "clair.notifier.renotifyinterval" \in DOMAIN Disk[path] =>
                  c.Notifier.RenotifyInterval
                      = ParseDuration(Disk[path]["clair.notifier.renotifyinterval"]).d

C9_EmptyPathIgnoresFiles ==
    (Called /\ path = "") =>
        \E gen \in Generations :
            [outcome |-> outcome, config |-> config, err |-> err]
                = Assemble([env |-> env, config |-> EmptyMap], "nil", gen)

\* C10: a call that finds no database source configured returns
\* ErrDatasourceNotLoaded and no Config (the call neither panicking nor running
\* out of entropy).
C10_NoSourceIsAnError ==
    (Called /\ ~Configured("clair.database.options.source") /\ ~Distracted)
        => (err = ErrDatasourceNotLoaded /\ config = Nil)

====
